---- MODULE Spec2Model ----
(***************************************************************************)
(* Model of src/book_recommendation.py: the BookRecommendationEDA pipeline *)
(* run by the __main__ block.                                              *)
(*                                                                         *)
(* Tables.  A DataFrame is a sequence of rows, each row a record of its    *)
(* columns, in the order of the file.  A cell of a column that pandas      *)
(* reads with mixed content (Age, Year-Of-Publication, Book-Rating) is a   *)
(* record [k, v]: k = "num" a number v, k = "numstr" a text that parses to *)
(* the number v, k = "badstr" a text that is no number, k = "nan" the      *)
(* missing marker (v is 0 where it carries nothing).  A cell of a text     *)
(* column (Book-Author, Publisher, Location) is a string, NaN the missing  *)
(* marker.                                                                 *)
(*                                                                         *)
(* Run lengths.  The tier thresholds of tenant_recommendations are 100,    *)
(* 500 and 1000 ratings and the author categories are 10 and 50 books, so  *)
(* a row of the ratings and of the books table carries a run length n:     *)
(*   - a ratings row [isbn, rating, n] stands for n rows of Ratings.csv    *)
(*     with that ISBN and that Book-Rating (by n different users; the      *)
(*     User-ID column is not modelled);                                    *)
(*   - a books row [isbn, author, year, publisher, n] stands for n rows of *)
(*     Books.csv alike in author, year and publisher; the first has the    *)
(*     ISBN isbn, the other n-1 have ISBNs that no rating names.           *)
(*                                                                         *)
(* Numbers.  A mean is kept in hundredths, as DataFrame.round(2) leaves    *)
(* it (Avg_Rating = 750 is 7.50).                                          *)
(*                                                                         *)
(* Plotting.  A figure is modelled by the file plt.savefig writes; the     *)
(* plotting calls are taken not to raise.  The three files have at least   *)
(* one row each and no missing ISBN.  Rating_Std (a square root) and the   *)
(* per-user and per-location counts are not modelled.                      *)
(***************************************************************************)
EXTENDS Integers, Sequences, FiniteSets, TLC

VARIABLES
    pc,                 \* the next step of __main__ / run_complete_analysis
    books_csv,          \* content of Books.csv
    users_csv,          \* content of Users.csv
    ratings_csv,        \* content of Ratings.csv
    assigned,           \* the attributes of self that are not None
    books_df,           \* self.books_df
    users_df,           \* self.users_df
    ratings_df,         \* self.ratings_df
    load_ok,            \* what load_data returned
    calls,              \* the methods called so far, in order
    files,              \* the files written in the working directory
    author_stats,       \* analyze_books_for_tenancy: books per author
    categories,         \* analyze_books_for_tenancy: the four pie values
    valid_years,        \* analyze_books_for_tenancy: row |-> year kept
    decade_counts,      \* analyze_books_for_tenancy: decade |-> books
    valid_ages,         \* analyze_users: row |-> age kept
    age_groups,         \* analyze_users: group label |-> users
    rating_dist,        \* analyze_ratings: rating value |-> rows
    percentages,        \* analyze_ratings: rating value |-> <<num, den>>
    book_popularity,    \* analyze_ratings: ISBN |-> rows
    merged,             \* merge_and_analyze: the three printed counts
    rated_books,        \* merge_and_analyze: merged rows with rating > 0
    author_performance, \* merge_and_analyze: per-author table
    publisher_stats,    \* merge_and_analyze: per-publisher table
    valid_year_ratings, \* merge_and_analyze: rated rows with a year kept
    year_stats,         \* merge_and_analyze: year |-> [Rating_Count, Avg_Rating]
    tier1, tier2, tier3,\* tenant_recommendations: the three tiers
    insights,           \* tenant_recommendations: the printed counts
    summary,            \* generate_summary_report: the returned dictionary
    results             \* what run_complete_analysis returned

vars == << pc, books_csv, users_csv, ratings_csv, assigned, books_df, users_df,
           ratings_df, load_ok, calls, files, author_stats, categories,
           valid_years, decade_counts, valid_ages, age_groups, rating_dist,
           percentages, book_popularity, merged, rated_books,
           author_performance, publisher_stats, valid_year_ratings, year_stats,
           tier1, tier2, tier3, insights, summary, results >>

----------------------------------------------------------------------------
(* Bounds of the inputs *)

\* rows (run-length groups) of Books.csv
MaxBooks == 2
\* rows of Users.csv
MaxUsers == 2
\* rows (run-length groups) of Ratings.csv
MaxRatings == 2

----------------------------------------------------------------------------
(* Cells *)

NaN == "NaN"
NaNCell == [k |-> "nan", v |-> 0]
BadStr == [k |-> "badstr", v |-> 0]
Num(x) == [k |-> "num", v |-> x]
NumStr(x) == [k |-> "numstr", v |-> x]

\* pd.to_numeric(column, errors="coerce"), cell by cell
to_numeric(c) == IF c.k \in {"num", "numstr"} THEN Num(c.v) ELSE NaNCell

\* Series.isna / what dropna removes
isna(c) == c.k = "nan"

\* Series.fillna(value) on a text column, cell by cell
fillna(s, value) == IF s = NaN THEN value ELSE s

----------------------------------------------------------------------------
(* Sequences and sums *)

RECURSIVE SumOver(_, _)
\* the sum of f[x] over the finite set S
SumOver(f, S) ==
    IF S = {} THEN 0
    ELSE LET x == CHOOSE y \in S : TRUE IN f[x] + SumOver(f, S \ {x})

\* the row positions of table t
Rows(t) == 1..Len(t)

\* len(df): the number of rows the run-length groups stand for
len(df) == SumOver([i \in Rows(df) |-> df[i].n], Rows(df))

\* df[mask]: boolean indexing keeps the rows whose mask is true, in their
\* order, in a new table
Filter(df, mask) ==
    LET F[i \in 0..Len(df)] ==
            IF i = 0 THEN << >>
            ELSE IF mask[i] THEN Append(F[i - 1], df[i]) ELSE F[i - 1]
    IN F[Len(df)]

\* the sequences over S of length lo..hi
SeqsOf(S, lo, hi) == UNION { [1..n -> S] : n \in lo..hi }

----------------------------------------------------------------------------
(* pandas primitives *)

\* Series.value_counts(): value |-> rows, over the rows of the column; the
\* missing values are dropped (dropna=True is the default).  vals and ns are
\* the column and the run lengths by row position, missing the set of
\* missing markers of the column.
value_counts(vals, ns, missing) ==
    LET present == { i \in DOMAIN vals : vals[i] \notin missing }
        keys == { vals[i] : i \in present }
    IN [ x \in keys |->
            SumOver(ns, { i \in present : vals[i] = x }) ]

\* DataFrame.round(2) of a mean sum/count, in hundredths.  numpy rounds
\* rint(x * 100) / 100 on the float x: half to even when x * 100 is exactly
\* a half, and to either side when the float product of an inexact mean
\* falls next to the half.  up says to which side a half goes.
round2(sum, count, up) ==
    LET q == (100 * sum) \div count
        r == (100 * sum) % count
    IN IF 2 * r < count THEN q
       ELSE IF 2 * r > count THEN q + 1
       ELSE IF up THEN q + 1 ELSE q

\* the mean is a half of a hundredth away from both neighbours
is_tie(sum, count) == 2 * ((100 * sum) % count) = count

\* the text values, in the order Python compares strings (groupby sorts its keys)
NameOrder == << "A", "B", "P", "Q", "Unknown Author", "i1", "i2", "i3" >>
Rank(s) == CHOOSE i \in DOMAIN NameOrder : NameOrder[i] = s

RECURSIVE SortedKeys(_)
\* the keys of a groupby, ascending
SortedKeys(S) ==
    IF S = {} THEN << >>
    ELSE LET m == CHOOSE x \in S : \A y \in S : Rank(x) <= Rank(y)
         IN << m >> \o SortedKeys(S \ {m})

RECURSIVE sort_values(_)
\* DataFrame.sort_values("Total_Ratings", ascending=False): descending, rows
\* of equal Total_Ratings keep their order
sort_values(t) ==
    IF t = << >> THEN << >>
    ELSE LET i == CHOOSE j \in Rows(t) :
                    /\ \A k \in Rows(t) : t[k].Total_Ratings <= t[j].Total_Ratings
                    /\ \A k \in 1..(j - 1) : t[k].Total_Ratings < t[j].Total_Ratings
         IN << t[i] >> \o sort_values(SubSeq(t, 1, i - 1) \o SubSeq(t, i + 1, Len(t)))

\* the index of a table keyed by author (or publisher)
index(t) == { t[i].key : i \in Rows(t) }

----------------------------------------------------------------------------
(* analyze_books_for_tenancy *)

\* clean_authors that overwrites the whole column
clean_authors_All(df) ==
    [ i \in Rows(df) |-> [ df[i] EXCEPT !.author = "Unknown Author" ] ]

\* self.books_df["Book-Author"] = self.books_df["Book-Author"].fillna("Unknown Author")
clean_authors(df) ==
    [ i \in Rows(df) |-> [ df[i] EXCEPT !.author = fillna(@, "Unknown Author") ] ]

\* df["Year-Of-Publication"] = pd.to_numeric(df["Year-Of-Publication"], errors="coerce")
coerce_years(df) ==
    [ i \in Rows(df) |-> [ df[i] EXCEPT !.year = to_numeric(@) ] ]

\* author_stats = self.books_df["Book-Author"].value_counts()
AuthorStats(df) ==
    value_counts([ i \in Rows(df) |-> df[i].author ],
                 [ i \in Rows(df) |-> df[i].n ], {NaN})

\* Categories with the single-book authors counted among the multi-book ones
Categories_MultiFrom1(stats) ==
    LET single_book_authors == Cardinality({ a \in DOMAIN stats : stats[a] = 1 })
        multi_book_authors == Cardinality({ a \in DOMAIN stats : stats[a] >= 1 })
        prolific_authors == Cardinality({ a \in DOMAIN stats : stats[a] >= 10 })
        super_authors == Cardinality({ a \in DOMAIN stats : stats[a] >= 50 })
    IN << single_book_authors,
          multi_book_authors - prolific_authors,
          prolific_authors - super_authors,
          super_authors >>

\* the four values of the pie chart: 1 book, 2-9, 10-49, 50+ books
Categories(stats) ==
    LET single_book_authors == Cardinality({ a \in DOMAIN stats : stats[a] = 1 })
        multi_book_authors == Cardinality({ a \in DOMAIN stats : stats[a] > 1 })
        prolific_authors == Cardinality({ a \in DOMAIN stats : stats[a] >= 10 })
        super_authors == Cardinality({ a \in DOMAIN stats : stats[a] >= 50 })
    IN << single_book_authors,
          multi_book_authors - prolific_authors,
          prolific_authors - super_authors,
          super_authors >>

\* ValidYears without the range check
ValidYears_NoRange(df) ==
    LET kept == { i \in Rows(df) : ~ isna(df[i].year) }
    IN [ i \in kept |-> df[i].year.v ]

\* valid_years: the years of the coerced column that are present and lie in
\* [1900, 2023], by row position
ValidYears(df) ==
    LET kept == { i \in Rows(df) :
                    /\ ~ isna(df[i].year)
                    /\ df[i].year.v >= 1900
                    /\ df[i].year.v <= 2023 }
    IN [ i \in kept |-> df[i].year.v ]

\* decade_counts = (valid_years // 10 * 10).value_counts().sort_index()
DecadeCounts(df, years) ==
    value_counts([ i \in DOMAIN years |-> (years[i] \div 10) * 10 ],
                 [ i \in DOMAIN years |-> df[i].n ], {})

----------------------------------------------------------------------------
(* analyze_users *)

\* ValidAges over the closed interval [0, 120]
ValidAges_Closed(df) ==
    LET age_data == [ i \in Rows(df) |-> to_numeric(df[i].age) ]
        kept == { i \in Rows(df) :
                    /\ ~ isna(age_data[i])
                    /\ age_data[i].v >= 0
                    /\ age_data[i].v <= 120 }
    IN [ i \in kept |-> age_data[i].v ]

\* valid_ages: the ages of the coerced column that are present and lie in
\* the open interval (0, 120), by row position
ValidAges(df) ==
    LET age_data == [ i \in Rows(df) |-> to_numeric(df[i].age) ]
        kept == { i \in Rows(df) :
                    /\ ~ isna(age_data[i])
                    /\ age_data[i].v > 0
                    /\ age_data[i].v < 120 }
    IN [ i \in kept |-> age_data[i].v ]

\* the bins and the labels of pd.cut: label k is the interval (bins[k], bins[k+1]]
AgeBins == << 0, 18, 25, 35, 45, 55, 65, 100 >>
AgeLabels == << "<18", "18-25", "26-35", "36-45", "46-55", "56-65", "65+" >>

\* pd.cut(valid_ages, bins, labels).value_counts(): every label, with the
\* number of ages in its interval; an age in no interval has no label
AgeGroups(ages) ==
    [ l \in { AgeLabels[k] : k \in DOMAIN AgeLabels } |->
        LET k == CHOOSE j \in DOMAIN AgeLabels : AgeLabels[j] = l
        IN Cardinality({ i \in DOMAIN ages :
                            ages[i] > AgeBins[k] /\ ages[i] <= AgeBins[k + 1] }) ]

----------------------------------------------------------------------------
(* analyze_ratings *)

\* RatingDist over the ratings above 0 only
RatingDist_NonZero(df) ==
    value_counts([ i \in Rows(df) |-> df[i].rating ],
                 [ i \in Rows(df) |-> df[i].n ], {NaNCell, Num(0)})

\* rating_dist = self.ratings_df["Book-Rating"].value_counts().sort_index()
RatingDist(df) ==
    value_counts([ i \in Rows(df) |-> df[i].rating ],
                 [ i \in Rows(df) |-> df[i].n ], {NaNCell})

\* percentage = count / len(self.ratings_df) * 100, as the fraction num/den
Percentages(df, dist) ==
    [ r \in DOMAIN dist |-> [ num |-> dist[r] * 100, den |-> len(df) ] ]

\* book_popularity = self.ratings_df["ISBN"].value_counts()
BookPopularity(df) ==
    value_counts([ i \in Rows(df) |-> df[i].isbn ],
                 [ i \in Rows(df) |-> df[i].n ], {NaN})

----------------------------------------------------------------------------
(* merge_and_analyze *)

\* self.ratings_df.merge(self.books_df, on="ISBN", how="left"): every ratings
\* row once per books row of its ISBN, in the order of the ratings; a ratings
\* row whose ISBN no book has is kept once, its book columns missing.  ri and
\* bi are the positions the row comes from (bi = 0: no book).
merge(ratings, books) ==
    LET RowsOf(ri) ==
            LET r == ratings[ri]
                hits == Filter([ bi \in Rows(books) |-> bi ],
                               [ bi \in Rows(books) |-> books[bi].isbn = r.isbn ])
            IN IF hits = << >>
               THEN << [ isbn |-> r.isbn, rating |-> r.rating, n |-> r.n,
                         author |-> NaN, year |-> NaNCell, publisher |-> NaN,
                         ri |-> ri, bi |-> 0 ] >>
               ELSE [ j \in Rows(hits) |->
                        [ isbn |-> r.isbn, rating |-> r.rating, n |-> r.n,
                          author |-> books[hits[j]].author,
                          year |-> books[hits[j]].year,
                          publisher |-> books[hits[j]].publisher,
                          ri |-> ri, bi |-> hits[j] ] ]
        M[i \in 0..Len(ratings)] ==
            IF i = 0 THEN << >> ELSE M[i - 1] \o RowsOf(i)
    IN M[Len(ratings)]

\* the mask ratings_books["Book-Rating"] > 0 (a comparison with the missing
\* marker is False)
is_rated(row) == ~ isna(row.rating) /\ row.rating.v > 0

\* RatedBooks that keeps the zero ratings too
RatedBooks_WithZero(ratings_books) ==
    Filter(ratings_books,
           [ i \in Rows(ratings_books) |->
                ~ isna(ratings_books[i].rating) /\ ratings_books[i].rating.v >= 0 ])

\* rated_books = ratings_books[ratings_books["Book-Rating"] > 0]
RatedBooks(ratings_books) ==
    Filter(ratings_books, [ i \in Rows(ratings_books) |-> is_rated(ratings_books[i]) ])

\* the rows of a group, and the "count" and the sum behind the "mean" of its
\* Book-Rating
GroupRows(t, col, key) == { i \in Rows(t) : t[i][col] = key }
GroupCount(t, G) == SumOver([ i \in Rows(t) |-> t[i].n ], G)
GroupSum(t, G) == SumOver([ i \in Rows(t) |-> t[i].n * t[i].rating.v ], G)

\* the keys of rated.groupby(col): the missing key is dropped
GroupKeys(t, col) == { t[i][col] : i \in Rows(t) } \ {NaN}

\* the keys whose mean sits on a half of a hundredth
TieKeys(t, col) ==
    { key \in GroupKeys(t, col) :
        is_tie(GroupSum(t, GroupRows(t, col, key)), GroupCount(t, GroupRows(t, col, key))) }

\* rated_books.groupby("Book-Author").agg({"Book-Rating": ["count", "mean",
\* "std"], "ISBN": "nunique"}).round(2), then the rows with Total_Ratings >=
\* 10, sorted by Total_Ratings (Rating_Std is not modelled)
AuthorPerformance(rated, up) ==
    LET keys == SortedKeys(GroupKeys(rated, "author"))
        agg == [ j \in Rows(keys) |->
                    LET G == GroupRows(rated, "author", keys[j])
                    IN [ key |-> keys[j],
                         Total_Ratings |-> GroupCount(rated, G),
                         Avg_Rating |-> round2(GroupSum(rated, G), GroupCount(rated, G),
                                               up[keys[j]]),
                         Unique_Books |-> Cardinality({ rated[i].isbn : i \in G }) ] ]
    IN sort_values(Filter(agg, [ j \in Rows(agg) |-> agg[j].Total_Ratings >= 10 ]))

\* rated_books.groupby("Publisher").agg({"Book-Rating": ["count", "mean"],
\* "Book-Author": "nunique"}).round(2), then the rows with Total_Ratings >=
\* 100, sorted by Total_Ratings
PublisherStats(rated, up) ==
    LET keys == SortedKeys(GroupKeys(rated, "publisher"))
        agg == [ j \in Rows(keys) |->
                    LET G == GroupRows(rated, "publisher", keys[j])
                    IN [ key |-> keys[j],
                         Total_Ratings |-> GroupCount(rated, G),
                         Avg_Rating |-> round2(GroupSum(rated, G), GroupCount(rated, G),
                                               up[keys[j]]),
                         Unique_Authors |->
                            Cardinality({ rated[i].author : i \in G } \ {NaN}) ] ]
    IN sort_values(Filter(agg, [ j \in Rows(agg) |-> agg[j].Total_Ratings >= 100 ]))

\* valid_year_ratings: the rated rows whose coerced year is present and lies
\* in [1950, 2023]
ValidYearRatings(rated) ==
    Filter(rated, [ i \in Rows(rated) |->
                        /\ ~ isna(rated[i].year)
                        /\ rated[i].year.v >= 1950
                        /\ rated[i].year.v <= 2023 ])

\* the years whose mean sits on a half of a hundredth
TieYears(t) ==
    { y \in { t[i].year.v : i \in Rows(t) } :
        LET G == { i \in Rows(t) : t[i].year.v = y }
        IN is_tie(GroupSum(t, G), GroupCount(t, G)) }

\* valid_year_ratings.groupby("Year-Of-Publication").agg({"Book-Rating":
\* ["count", "mean"]}).round(2)
YearStats(t, up) ==
    [ y \in { t[i].year.v : i \in Rows(t) } |->
        LET G == { i \in Rows(t) : t[i].year.v = y }
        IN [ Rating_Count |-> GroupCount(t, G),
             Avg_Rating |-> round2(GroupSum(t, G), GroupCount(t, G), up[y]) ] ]

----------------------------------------------------------------------------
(* tenant_recommendations *)

\* Tier1 with the boundary of 1000 ratings left out
Tier1_Strict(ap) ==
    Filter(ap, [ i \in Rows(ap) |->
                    ap[i].Total_Ratings > 1000 /\ ap[i].Avg_Rating >= 750 ])

\* Tier 1: 1000+ ratings and 7.5+ average rating
Tier1(ap) ==
    Filter(ap, [ i \in Rows(ap) |->
                    ap[i].Total_Ratings >= 1000 /\ ap[i].Avg_Rating >= 750 ])

\* Tier2 without the exclusion of tier 1
Tier2_NoExclusion(ap, t1) ==
    Filter(ap, [ i \in Rows(ap) |->
                    ap[i].Total_Ratings >= 500 /\ ap[i].Avg_Rating >= 700 ])

\* Tier 2: 500+ ratings and 7.0+ average rating, not in tier 1
Tier2(ap, t1) ==
    Filter(ap, [ i \in Rows(ap) |->
                    /\ ap[i].Total_Ratings >= 500 /\ ap[i].Avg_Rating >= 700
                    /\ ap[i].key \notin index(t1) ])

\* Tier3 with the average of tier 2 in place of its own
Tier3_Avg70(ap, t1, t2) ==
    Filter(ap, [ i \in Rows(ap) |->
                    /\ ap[i].Total_Ratings >= 100 /\ ap[i].Avg_Rating >= 700
                    /\ ap[i].key \notin index(t1)
                    /\ ap[i].key \notin index(t2) ])

\* Tier 3: 100+ ratings and 6.5+ average rating, in neither tier 1 nor tier 2
Tier3(ap, t1, t2) ==
    Filter(ap, [ i \in Rows(ap) |->
                    /\ ap[i].Total_Ratings >= 100 /\ ap[i].Avg_Rating >= 650
                    /\ ap[i].key \notin index(t1)
                    /\ ap[i].key \notin index(t2) ])

\* Insights with tier 3 forgotten in the long tail
Insights_NoTier3(ap, t1, t2, t3) ==
    [ total |-> Len(ap), premium |-> Len(t1), high |-> Len(t2), growing |-> Len(t3),
      long_tail |-> Len(ap) - Len(t1) - Len(t2) ]

\* the counts printed under BUSINESS INSIGHTS
Insights(ap, t1, t2, t3) ==
    [ total |-> Len(ap), premium |-> Len(t1), high |-> Len(t2), growing |-> Len(t3),
      long_tail |-> Len(ap) - Len(t1) - Len(t2) - Len(t3) ]

----------------------------------------------------------------------------
(* generate_summary_report *)

\* the dictionary generate_summary_report returns; engagement_rate is the
\* fraction num/den
Summary(books, users, ratings) ==
    LET total_ratings == len(ratings)
        active_ratings ==
            SumOver([ i \in Rows(ratings) |-> ratings[i].n ],
                    { i \in Rows(ratings) : is_rated(ratings[i]) })
    IN [ total_books |-> len(books),
         total_users |-> Len(users),
         total_ratings |-> total_ratings,
         unique_authors |-> Cardinality({ books[i].author : i \in Rows(books) } \ {NaN}),
         active_ratings |-> active_ratings,
         engagement_rate |-> [ num |-> active_ratings * 100, den |-> total_ratings ] ]

----------------------------------------------------------------------------
(* The files.  The inputs vary one table at a time around small default     *)
(* tables: the books with their authors and run lengths, the books with     *)
(* their years, the ratings with the run lengths next to the tier           *)
(* thresholds, the ratings with missing and zero ratings and unknown ISBNs,  *)
(* the users with their ages.                                               *)

Book(i, a, y, p, k) == [ isbn |-> i, author |-> a, year |-> y, publisher |-> p, n |-> k ]
Rating(i, r, k) == [ isbn |-> i, rating |-> r, n |-> k ]
User(a, l) == [ age |-> a, location |-> l ]

DefaultBooks == << Book("i1", "A", Num(2000), "P", 1), Book("i2", "B", NumStr(1990), "Q", 1) >>
DefaultUsers == << User(Num(30), "nyc, new york, usa"), User(BadStr, "nyc, new york, usa") >>
DefaultRatings == << Rating("i1", Num(7), 10), Rating("i2", Num(0), 1) >>

\* books that differ in author, publisher and run length
AuthorBookRows ==
    { Book(i, a, Num(2000), p, k) :
        i \in {"i1", "i2"}, a \in {"A", "B", NaN}, p \in {"P"}, k \in {1, 9, 49} }

\* books that differ in the year cell
YearCells ==
    { NaNCell, BadStr, NumStr(1950), Num(1899), Num(1900), Num(1949), Num(2023), Num(2024) }
YearBookRows ==
    { Book(i, "A", y, "P", 1) : i \in {"i1", "i2"}, y \in YearCells }

\* the ratings that go with the varied books
BookRatings ==
    << Rating("i1", Num(8), 10), Rating("i2", Num(7), 100), Rating("i2", Num(0), 1),
       Rating("i3", Num(9), 10) >>

\* ratings whose run lengths add up to the tier thresholds or stop short of them
TierRatingRows ==
    { Rating(i, Num(r), k) : i \in {"i1", "i2"}, r \in {6, 7, 8}, k \in {1, 99, 499, 500} }

\* ratings with missing and zero ratings and an ISBN that no book has
PlainRatingRows ==
    { Rating(i, r, k) : i \in {"i1", "i3"}, r \in {NaNCell, Num(0), Num(7)}, k \in {1, 10} }

\* users that differ in the age cell
AgeCells ==
    { NaNCell, BadStr, NumStr(25), Num(-1), Num(0), Num(1), Num(18), Num(100),
      Num(101), Num(119), Num(120) }
UserRows == { User(a, "nyc, new york, usa") : a \in AgeCells }

Inputs ==
    { << b, DefaultUsers, BookRatings >> :
        b \in SeqsOf(AuthorBookRows, 1, MaxBooks) \cup SeqsOf(YearBookRows, 1, MaxBooks) }
    \cup { << DefaultBooks, DefaultUsers, r >> :
            r \in SeqsOf(TierRatingRows, 1, MaxRatings)
                    \cup SeqsOf(PlainRatingRows, 1, MaxRatings) }
    \cup { << DefaultBooks, u, DefaultRatings >> : u \in SeqsOf(UserRows, 1, MaxUsers) }

----------------------------------------------------------------------------
(* The program *)

NoTable == << >>
NoSeries == << >>
NoResult == [ kind |-> "unset", tenant_tiers |-> << >>, author_performance |-> << >>,
              summary |-> << >> ]

\* BookRecommendationEDA.__init__: the three frames are None, nothing is computed
Init ==
    /\ \E in \in Inputs :
        /\ books_csv = in[1]
        /\ users_csv = in[2]
        /\ ratings_csv = in[3]
    /\ pc = "load_data"
    /\ assigned = {}
    /\ books_df = NoTable
    /\ users_df = NoTable
    /\ ratings_df = NoTable
    /\ load_ok = "unset"
    /\ calls = << >>
    /\ files = {}
    /\ author_stats = NoSeries
    /\ categories = << >>
    /\ valid_years = NoSeries
    /\ decade_counts = NoSeries
    /\ valid_ages = NoSeries
    /\ age_groups = NoSeries
    /\ rating_dist = NoSeries
    /\ percentages = NoSeries
    /\ book_popularity = NoSeries
    /\ merged = << >>
    /\ rated_books = NoTable
    /\ author_performance = NoTable
    /\ publisher_stats = NoTable
    /\ valid_year_ratings = NoTable
    /\ year_stats = NoSeries
    /\ tier1 = NoTable
    /\ tier2 = NoTable
    /\ tier3 = NoTable
    /\ insights = << >>
    /\ summary = << >>
    /\ results = NoResult

outputs == << author_stats, categories, valid_years, decade_counts, valid_ages,
              age_groups, rating_dist, percentages, book_popularity, merged,
              rated_books, author_performance, publisher_stats, valid_year_ratings,
              year_stats, tier1, tier2, tier3, insights, summary >>
csvs == << books_csv, users_csv, ratings_csv >>
frames == << assigned, books_df, users_df, ratings_df >>

\* the three pd.read_csv calls of load_data, in their order
ReadOrder == << "Books", "Users", "Ratings" >>

\* load_data when the three reads succeed: returns True
LoadData ==
    /\ pc = "load_data"
    /\ books_df' = books_csv
    /\ users_df' = users_csv
    /\ ratings_df' = ratings_csv
    /\ assigned' = {"books_df", "users_df", "ratings_df"}
    /\ load_ok' = "True"
    /\ calls' = Append(calls, "load_data")
    /\ pc' = "basic_info"
    /\ UNCHANGED << csvs, files, outputs, results >>

\* LoadDataFails with the returned flag ignored: the run goes on to basic_info
LoadDataFails_Ignored(k) ==
    /\ pc = "load_data"
    /\ books_df' = IF k > 1 THEN books_csv ELSE books_df
    /\ users_df' = IF k > 2 THEN users_csv ELSE users_df
    /\ ratings_df' = ratings_df
    /\ assigned' = { <<"books_df", "users_df", "ratings_df">>[j] : j \in 1..(k - 1) }
    /\ load_ok' = "False"
    /\ calls' = Append(calls, "load_data")
    /\ pc' = "basic_info"
    /\ UNCHANGED << csvs, files, outputs, results >>

\* load_data when the read of file ReadOrder[k] raises: the frames read before
\* it stay assigned, the except clause returns False, run_complete_analysis
\* returns None at once
LoadDataFails(k) ==
    /\ pc = "load_data"
    /\ books_df' = IF k > 1 THEN books_csv ELSE books_df
    /\ users_df' = IF k > 2 THEN users_csv ELSE users_df
    /\ ratings_df' = ratings_df
    /\ assigned' = { <<"books_df", "users_df", "ratings_df">>[j] : j \in 1..(k - 1) }
    /\ load_ok' = "False"
    /\ calls' = Append(calls, "load_data")
    /\ results' = [ NoResult EXCEPT !.kind = "None" ]
    /\ pc' = "pickle"
    /\ UNCHANGED << csvs, files, outputs >>

\* BasicInfo that goes on to analyze_users, past the books analysis
BasicInfo_SkipsBooks ==
    /\ pc = "basic_info"
    /\ calls' = Append(calls, "basic_info")
    /\ pc' = "analyze_users"
    /\ UNCHANGED << csvs, frames, load_ok, files, outputs, results >>

\* basic_info: prints shapes, columns, heads and missing counts
BasicInfo ==
    /\ pc = "basic_info"
    /\ calls' = Append(calls, "basic_info")
    /\ pc' = "analyze_books_for_tenancy"
    /\ UNCHANGED << csvs, frames, load_ok, files, outputs, results >>

\* analyze_books_for_tenancy: fills the missing authors of self.books_df,
\* counts the books per author, coerces the year column of self.books_df,
\* counts the books per decade, saves author_tenant_analysis.png
AnalyzeBooksForTenancy ==
    /\ pc = "analyze_books_for_tenancy"
    /\ LET cleaned == clean_authors(books_df)
           coerced == coerce_years(cleaned)
           stats == AuthorStats(cleaned)
           years == ValidYears(coerced)
       IN /\ books_df' = coerced
          /\ author_stats' = stats
          /\ categories' = Categories(stats)
          /\ valid_years' = years
          /\ decade_counts' = DecadeCounts(coerced, years)
    /\ files' = files \cup {"author_tenant_analysis.png"}
    /\ calls' = Append(calls, "analyze_books_for_tenancy")
    /\ pc' = "analyze_users"
    /\ UNCHANGED << csvs, assigned, users_df, ratings_df, load_ok, valid_ages,
                    age_groups, rating_dist, percentages, book_popularity, merged,
                    rated_books, author_performance, publisher_stats,
                    valid_year_ratings, year_stats, tier1, tier2, tier3, insights,
                    summary, results >>

\* AnalyzeUsers without its plt.savefig
AnalyzeUsers_NoSave ==
    /\ pc = "analyze_users"
    /\ LET ages == ValidAges(users_df)
       IN /\ valid_ages' = ages
          /\ age_groups' = AgeGroups(ages)
    /\ calls' = Append(calls, "analyze_users")
    /\ pc' = "analyze_ratings"
    /\ UNCHANGED << csvs, frames, load_ok, files, author_stats, categories, valid_years,
                    decade_counts, rating_dist, percentages, book_popularity, merged,
                    rated_books, author_performance, publisher_stats,
                    valid_year_ratings, year_stats, tier1, tier2, tier3, insights,
                    summary, results >>

\* AnalyzeUsers that writes the coerced ages back into self.users_df
AnalyzeUsers_InPlace ==
    /\ pc = "analyze_users"
    /\ LET ages == ValidAges(users_df)
       IN /\ valid_ages' = ages
          /\ age_groups' = AgeGroups(ages)
    /\ users_df' = [ i \in Rows(users_df) |->
                        [ users_df[i] EXCEPT !.age = to_numeric(@) ] ]
    /\ files' = files \cup {"user_analysis.png"}
    /\ calls' = Append(calls, "analyze_users")
    /\ pc' = "analyze_ratings"
    /\ UNCHANGED << csvs, assigned, books_df, ratings_df, load_ok, author_stats,
                    categories, valid_years, decade_counts, rating_dist, percentages,
                    book_popularity, merged, rated_books, author_performance,
                    publisher_stats, valid_year_ratings, year_stats, tier1, tier2,
                    tier3, insights, summary, results >>

\* analyze_users: the valid ages and their groups, saves user_analysis.png
\* (the location and country counts are not modelled)
AnalyzeUsers ==
    /\ pc = "analyze_users"
    /\ LET ages == ValidAges(users_df)
       IN /\ valid_ages' = ages
          /\ age_groups' = AgeGroups(ages)
    /\ files' = files \cup {"user_analysis.png"}
    /\ calls' = Append(calls, "analyze_users")
    /\ pc' = "analyze_ratings"
    /\ UNCHANGED << csvs, frames, load_ok, author_stats, categories, valid_years,
                    decade_counts, rating_dist, percentages, book_popularity, merged,
                    rated_books, author_performance, publisher_stats,
                    valid_year_ratings, year_stats, tier1, tier2, tier3, insights,
                    summary, results >>

\* analyze_ratings: the rating distribution with its percentages, the ratings
\* per book, saves rating_analysis.png (the ratings per user are not modelled)
AnalyzeRatings ==
    /\ pc = "analyze_ratings"
    /\ LET dist == RatingDist(ratings_df)
       IN /\ rating_dist' = dist
          /\ percentages' = Percentages(ratings_df, dist)
    /\ book_popularity' = BookPopularity(ratings_df)
    /\ files' = files \cup {"rating_analysis.png"}
    /\ calls' = Append(calls, "analyze_ratings")
    /\ pc' = "merge_and_analyze"
    /\ UNCHANGED << csvs, frames, load_ok, author_stats, categories, valid_years,
                    decade_counts, valid_ages, age_groups, merged, rated_books,
                    author_performance, publisher_stats, valid_year_ratings,
                    year_stats, tier1, tier2, tier3, insights, summary, results >>

\* merge_and_analyze: merges the ratings with the books, keeps the rows rated
\* above 0, builds the author and the publisher tables, coerces the year
\* column of its own rated_books, builds the per-year table, saves
\* merged_analysis.png
MergeAndAnalyze ==
    /\ pc = "merge_and_analyze"
    /\ LET ratings_books == merge(ratings_df, books_df)
           rated == RatedBooks(ratings_books)
           coerced == coerce_years(rated)
           by_year == ValidYearRatings(coerced)
       IN /\ merged' = [ total |-> len(ratings_books), actual |-> len(rated),
                         implicit |-> len(ratings_books) - len(rated) ]
          /\ rated_books' = coerced
          /\ \E up \in [ TieKeys(rated, "author") -> BOOLEAN ] :
                author_performance' =
                    AuthorPerformance(rated,
                        [ a \in GroupKeys(rated, "author") |->
                            IF a \in DOMAIN up THEN up[a] ELSE FALSE ])
          /\ \E up \in [ TieKeys(rated, "publisher") -> BOOLEAN ] :
                publisher_stats' =
                    PublisherStats(rated,
                        [ a \in GroupKeys(rated, "publisher") |->
                            IF a \in DOMAIN up THEN up[a] ELSE FALSE ])
          /\ valid_year_ratings' = by_year
          /\ \E up \in [ TieYears(by_year) -> BOOLEAN ] :
                year_stats' =
                    YearStats(by_year,
                        [ y \in { by_year[i].year.v : i \in Rows(by_year) } |->
                            IF y \in DOMAIN up THEN up[y] ELSE FALSE ])
    /\ files' = files \cup {"merged_analysis.png"}
    /\ calls' = Append(calls, "merge_and_analyze")
    /\ pc' = "tenant_recommendations"
    /\ UNCHANGED << csvs, frames, load_ok, author_stats, categories, valid_years,
                    decade_counts, valid_ages, age_groups, rating_dist, percentages,
                    book_popularity, tier1, tier2, tier3, insights, summary, results >>

\* tenant_recommendations(author_performance): the three tiers and the
\* printed counts; writes no file
TenantRecommendations ==
    /\ pc = "tenant_recommendations"
    /\ LET t1 == Tier1(author_performance)
           t2 == Tier2(author_performance, t1)
           t3 == Tier3(author_performance, t1, t2)
       IN /\ tier1' = t1
          /\ tier2' = t2
          /\ tier3' = t3
          /\ insights' = Insights(author_performance, t1, t2, t3)
    /\ calls' = Append(calls, "tenant_recommendations")
    /\ pc' = "generate_summary_report"
    /\ UNCHANGED << csvs, frames, load_ok, files, author_stats, categories,
                    valid_years, decade_counts, valid_ages, age_groups, rating_dist,
                    percentages, book_popularity, merged, rated_books,
                    author_performance, publisher_stats, valid_year_ratings,
                    year_stats, summary, results >>

\* generate_summary_report: the scale and viability figures
GenerateSummaryReport ==
    /\ pc = "generate_summary_report"
    /\ summary' = Summary(books_df, users_df, ratings_df)
    /\ calls' = Append(calls, "generate_summary_report")
    /\ pc' = "return"
    /\ UNCHANGED << csvs, frames, load_ok, files, author_stats, categories,
                    valid_years, decade_counts, valid_ages, age_groups, rating_dist,
                    percentages, book_popularity, merged, rated_books,
                    author_performance, publisher_stats, valid_year_ratings,
                    year_stats, tier1, tier2, tier3, insights, results >>

\* the end of run_complete_analysis: the result dictionary is returned
Return ==
    /\ pc = "return"
    /\ results' = [ kind |-> "dict",
                    tenant_tiers |-> << tier1, tier2, tier3 >>,
                    author_performance |-> author_performance,
                    summary |-> summary ]
    /\ pc' = "pickle"
    /\ UNCHANGED << csvs, frames, load_ok, calls, files, outputs >>

\* __main__: pickle.dump(results, f) into book_eda_results.pkl, whatever
\* run_complete_analysis returned
Pickle ==
    /\ pc = "pickle"
    /\ files' = files \cup {"book_eda_results.pkl"}
    /\ pc' = "exit"
    /\ UNCHANGED << csvs, frames, load_ok, calls, outputs, results >>

Next ==
    \/ LoadData
    \/ \E k \in DOMAIN ReadOrder : LoadDataFails(k)
    \/ BasicInfo
    \/ AnalyzeBooksForTenancy
    \/ AnalyzeUsers
    \/ AnalyzeRatings
    \/ MergeAndAnalyze
    \/ TenantRecommendations
    \/ GenerateSummaryReport
    \/ Return
    \/ Pickle

Spec == Init /\ [][Next]_vars

----------------------------------------------------------------------------
(* Properties *)

\* method m has been called
Called(m) == \E i \in DOMAIN calls : calls[i] = m

\* the chart files written so far: every file but the pickle
PngFiles == files \ {"book_eda_results.pkl"}

\* the analysis steps of run_complete_analysis after load_data
AnalysisSteps ==
    { "basic_info", "analyze_books_for_tenancy", "analyze_users", "analyze_ratings",
      "merge_and_analyze", "tenant_recommendations", "generate_summary_report" }

\* C1: when one of the three reads fails, load_data returns False and the
\* pipeline stops: no analysis step is called, no output is computed, no
\* chart file is written and no result dictionary is returned.
C1_LoadFailureAborts ==
    load_ok = "False" =>
        /\ calls = << "load_data" >>
        /\ \A m \in AnalysisSteps : ~ Called(m)
        /\ PngFiles = {}
        /\ results.kind = "None"
        /\ pc \in {"pickle", "exit"}
        /\ author_stats = NoSeries /\ valid_ages = NoSeries /\ rating_dist = NoSeries
        /\ merged = << >> /\ insights = << >> /\ summary = << >>

\* a run whose read of Users.csv failed after Books.csv was read has ended
C1_Witness ==
    /\ load_ok = "False"
    /\ assigned = {"books_df"}
    /\ pc = "exit"

\* C2: no author is in more than one of tier1, tier2 and tier3.
C2_TiersDisjoint ==
    /\ index(tier1) \cap index(tier2) = {}
    /\ index(tier1) \cap index(tier3) = {}
    /\ index(tier2) \cap index(tier3) = {}

\* two tiers are filled, by authors of whom one meets a lower tier's thresholds too
C2_Witness ==
    /\ Called("tenant_recommendations")
    /\ tier2 # << >>
    /\ tier3 # << >>
    /\ \E i \in Rows(tier2) : tier2[i].Total_Ratings >= 100 /\ tier2[i].Avg_Rating >= 650

\* the rating-book combinations rated above 0 that author a has, counted from
\* the frames
RatingsOf(a) ==
    SumOver([ p \in Rows(ratings_df) \X Rows(books_df) |-> ratings_df[p[1]].n ],
            { p \in Rows(ratings_df) \X Rows(books_df) :
                /\ is_rated(ratings_df[p[1]])
                /\ books_df[p[2]].isbn = ratings_df[p[1]].isbn
                /\ books_df[p[2]].author = a })

\* the authors with at least 10 ratings above 0
AuthorsWith10 ==
    { a \in { books_df[i].author : i \in Rows(books_df) } \ {NaN} : RatingsOf(a) >= 10 }

\* C3: the three tier counts and the printed long-tail count add up to the
\* number of authors with at least 10 ratings above 0, and the long-tail
\* count is not negative.
C3_TierCountsAddUp ==
    Called("tenant_recommendations") =>
        /\ insights.premium + insights.high + insights.growing + insights.long_tail
                = Cardinality(AuthorsWith10)
        /\ insights.premium = Len(tier1)
        /\ insights.high = Len(tier2)
        /\ insights.growing = Len(tier3)
        /\ insights.long_tail >= 0

\* one author is in a tier and another, with 10 ratings or more, in the long tail
C3_Witness ==
    /\ Called("tenant_recommendations")
    /\ insights.long_tail > 0
    /\ insights.premium + insights.high + insights.growing > 0
    /\ Cardinality(AuthorsWith10) = 2

NumericAge(i) == users_df[i].age.k \in {"num", "numstr"}

\* C5: every age kept by analyze_users lies in the open interval (0, 120), and
\* every numeric age of the users in that interval is kept; ages of 0 or 120,
\* negative ages and missing ages are left out.
C5_AgeFilter ==
    Called("analyze_users") =>
        /\ \A i \in DOMAIN valid_ages : valid_ages[i] > 0 /\ valid_ages[i] < 120
        /\ \A i \in Rows(users_df) :
            i \in DOMAIN valid_ages <=>
                (NumericAge(i) /\ users_df[i].age.v > 0 /\ users_df[i].age.v < 120)
        /\ \A i \in DOMAIN valid_ages : valid_ages[i] = users_df[i].age.v
        /\ SumOver(age_groups, DOMAIN age_groups) <= Cardinality(DOMAIN valid_ages)

\* an age of 119 is kept and an age of 120 is left out
C5_Witness ==
    /\ Called("analyze_users")
    /\ \E i \in DOMAIN valid_ages : valid_ages[i] = 119
    /\ \E i \in Rows(users_df) : users_df[i].age = Num(120) /\ i \notin DOMAIN valid_ages

\* the rating rows whose Book-Rating is missing
MissingRatings ==
    SumOver([ i \in Rows(ratings_df) |-> ratings_df[i].n ],
            { i \in Rows(ratings_df) : isna(ratings_df[i].rating) })

\* the sum of the printed percentages is 100: the numerators over the common
\* denominator len(ratings_df)
PercentagesSumTo100 ==
    SumOver([ r \in DOMAIN percentages |-> percentages[r].num ], DOMAIN percentages)
        = 100 * len(ratings_df)

\* C6 as stated: for every ratings table the counts of the rating
\* distribution add up to the number of rating rows, and the percentages to 100.
C6_AsStated ==
    Called("analyze_ratings") =>
        /\ SumOver(rating_dist, DOMAIN rating_dist) = len(ratings_df)
        /\ PercentagesSumTo100

\* C6: the counts of the rating distribution add up to the number of rating
\* rows whose Book-Rating is present, every percentage is count * 100 over the
\* number of all rating rows, and the percentages add up to 100 exactly when
\* no Book-Rating is missing.
C6_RatingDistribution ==
    Called("analyze_ratings") =>
        /\ SumOver(rating_dist, DOMAIN rating_dist) = len(ratings_df) - MissingRatings
        /\ DOMAIN percentages = DOMAIN rating_dist
        /\ \A r \in DOMAIN rating_dist :
            percentages[r] = [ num |-> rating_dist[r] * 100, den |-> len(ratings_df) ]
        /\ PercentagesSumTo100 <=> MissingRatings = 0
        /\ \A r \in DOMAIN rating_dist :
            rating_dist[r] =
                SumOver([ i \in Rows(ratings_df) |-> ratings_df[i].n ],
                        { i \in Rows(ratings_df) : ratings_df[i].rating = r })

\* a distribution over two rating values, of a table with no missing rating
C6_Witness ==
    /\ Called("analyze_ratings")
    /\ MissingRatings = 0
    /\ Cardinality(DOMAIN rating_dist) = 2
    /\ PercentagesSumTo100

\* the run of run_complete_analysis has ended with the result dictionary and
\* __main__ has saved it
Complete == pc = "exit" /\ results.kind = "dict"

\* C7 as stated: a complete run leaves five PNG chart files.
C7_AsStated == Complete => Cardinality(PngFiles) = 5

\* C7: a complete run leaves four PNG chart files with fixed names,
\* author_tenant_analysis.png, user_analysis.png, rating_analysis.png and
\* merged_analysis.png, next to the pickled results.
C7_FourCharts ==
    Complete =>
        /\ PngFiles = { "author_tenant_analysis.png", "user_analysis.png",
                        "rating_analysis.png", "merged_analysis.png" }
        /\ "book_eda_results.pkl" \in files

\* a complete run that put authors in a tier
C7_Witness == Complete /\ tier1 # << >>

\* C8 as stated: but for the year column, the books frame holds what was
\* loaded, the Book-Author column included, and no row is added or removed.
C8_AsStated ==
    "books_df" \in assigned =>
        /\ Len(books_df) = Len(books_csv)
        /\ \A i \in Rows(books_df) :
            /\ books_df[i].isbn = books_csv[i].isbn
            /\ books_df[i].author = books_csv[i].author
            /\ books_df[i].publisher = books_csv[i].publisher
            /\ books_df[i].n = books_csv[i].n

\* C8: across the pipeline the books frame keeps its rows and every column
\* but two: the year column is coerced to numbers, and a missing Book-Author
\* is replaced by "Unknown Author" (every other author is the one loaded).
C8_BooksFrame ==
    "books_df" \in assigned =>
        /\ Len(books_df) = Len(books_csv)
        /\ \A i \in Rows(books_df) :
            /\ books_df[i].isbn = books_csv[i].isbn
            /\ books_df[i].publisher = books_csv[i].publisher
            /\ books_df[i].n = books_csv[i].n
            /\ IF Called("analyze_books_for_tenancy")
               THEN /\ books_df[i].year = to_numeric(books_csv[i].year)
                    /\ books_csv[i].author # NaN => books_df[i].author = books_csv[i].author
                    /\ books_csv[i].author = NaN => books_df[i].author = "Unknown Author"
               ELSE books_df[i] = books_csv[i]

\* a run has ended in which a missing author was filled in and another kept
C8_Witness ==
    /\ Complete
    /\ \E i \in Rows(books_df) : books_csv[i].author = NaN /\ books_df[i].author # NaN
    /\ \E i \in Rows(books_df) : books_csv[i].author = "B" /\ books_df[i].n = 49

\* C9: once loaded, the users frame and the ratings frame never change, and
\* merge_and_analyze, which coerces the year column of its own rated rows,
\* changes neither the ratings frame nor the books frame.
C9_ReadOnly ==
    [][ pc # "load_data" =>
            /\ users_df' = users_df
            /\ ratings_df' = ratings_df
            /\ pc = "merge_and_analyze" => books_df' = books_df ]_vars

\* a run has ended in which the merge dropped zero ratings and kept rated
\* rows, over users with a malformed age
C9_Witness ==
    /\ Complete
    /\ users_df = users_csv /\ ratings_df = ratings_csv
    /\ rated_books # << >>
    /\ merged.implicit > 0
    /\ \E i \in Rows(users_df) : users_df[i].age = BadStr

\* the cell is a text that is no number
Malformed(c) == c.k = "badstr"

\* C10: a malformed age or year stops nothing and counts nowhere: the run
\* goes on to its end, no malformed age is among the valid ages, the books
\* per decade count only years in [1900, 2023] that were numbers, and the
\* per-year rating statistics only rated rows whose year was a number in
\* [1950, 2023].
C10_MalformedExcluded ==
    /\ (pc = "exit" /\ load_ok = "True") =>
            results.kind = "dict" /\ \A m \in AnalysisSteps : Called(m)
    /\ Called("analyze_users") =>
        \A i \in Rows(users_csv) : Malformed(users_csv[i].age) => i \notin DOMAIN valid_ages
    /\ Called("analyze_books_for_tenancy") =>
        /\ \A i \in DOMAIN valid_years :
            /\ ~ Malformed(books_csv[i].year) /\ ~ isna(books_csv[i].year)
            /\ valid_years[i] = books_csv[i].year.v
            /\ valid_years[i] >= 1900 /\ valid_years[i] <= 2023
        /\ \A d \in DOMAIN decade_counts : d >= 1900 /\ d <= 2020 /\ d % 10 = 0
        /\ SumOver(decade_counts, DOMAIN decade_counts)
                = SumOver([ i \in Rows(books_csv) |-> books_csv[i].n ], DOMAIN valid_years)
    /\ Called("merge_and_analyze") =>
        /\ \A i \in Rows(valid_year_ratings) :
            LET r == valid_year_ratings[i]
            IN /\ r.bi # 0
               /\ ~ Malformed(books_csv[r.bi].year) /\ ~ isna(books_csv[r.bi].year)
               /\ r.year.v = books_csv[r.bi].year.v
               /\ r.year.v >= 1950 /\ r.year.v <= 2023
               /\ r.year.v \in DOMAIN year_stats
        /\ \A y \in DOMAIN year_stats : y >= 1950 /\ y <= 2023
        /\ SumOver([ y \in DOMAIN year_stats |-> year_stats[y].Rating_Count ],
                   DOMAIN year_stats) = len(valid_year_ratings)

\* a run has ended over a malformed age and a rated book with a malformed
\* year, next to a rated book whose year counts
C10_Witness ==
    /\ Complete
    /\ \E i \in Rows(users_csv) : Malformed(users_csv[i].age)
    /\ \E i \in Rows(rated_books) :
            rated_books[i].bi # 0 /\ Malformed(books_csv[rated_books[i].bi].year)
    /\ valid_year_ratings # << >>
    /\ valid_years # NoSeries

\* the methods of a run, in the order run_complete_analysis calls them
Pipeline ==
    << "load_data", "basic_info", "analyze_books_for_tenancy", "analyze_users",
       "analyze_ratings", "merge_and_analyze", "tenant_recommendations",
       "generate_summary_report" >>

\* the rows of table t, as a set
RowSet(t) == { t[i] : i \in Rows(t) }

\* C11: a run is one straight line: the methods called so far are the first
\* ones of the pipeline, each once and in its order; the tiers are taken from
\* the author table that merge_and_analyze built in this run; the result
\* dictionary is returned only after the summary report, with all eight
\* methods called, and it holds what they produced.
C11_LinearRun ==
    /\ Len(calls) <= Len(Pipeline)
    /\ \A i \in DOMAIN calls : calls[i] = Pipeline[i]
    /\ Called("tenant_recommendations") =>
        /\ insights.total = Len(author_performance)
        /\ RowSet(tier1) \cup RowSet(tier2) \cup RowSet(tier3) \subseteq RowSet(author_performance)
    /\ results.kind = "dict" =>
        /\ calls = Pipeline
        /\ results.summary = summary /\ summary # << >>
        /\ results.author_performance = author_performance
        /\ results.tenant_tiers = << tier1, tier2, tier3 >>
    /\ (pc = "exit" /\ load_ok = "True") => results.kind = "dict"

\* a run has returned its dictionary after the eight calls, with authors in
\* the table handed to tenant_recommendations
C11_Witness ==
    /\ results.kind = "dict"
    /\ calls = Pipeline
    /\ Len(author_performance) = 2
    /\ tier3 # << >>

\* the rating-book combinations that ratings row i gives: one per book of
\* its ISBN, one if no book has it, times its run length
Combinations(i) ==
    LET hits == Cardinality({ b \in Rows(books_df) : books_df[b].isbn = ratings_df[i].isbn })
    IN ratings_df[i].n * (IF hits = 0 THEN 1 ELSE hits)

\* the rating-book combinations of the ratings rows in S
CombinationsOf(S) == SumOver([ i \in Rows(ratings_df) |-> Combinations(i) ], S)

ZeroRated == { i \in Rows(ratings_df) : ratings_df[i].rating = Num(0) }
Rated == { i \in Rows(ratings_df) : is_rated(ratings_df[i]) }

\* the count and the sum of the ratings above 0 of the books whose column col
\* is key, from the frames
RatedPairs(col, key) ==
    { p \in Rows(ratings_df) \X Rows(books_df) :
        /\ p[1] \in Rated
        /\ books_df[p[2]].isbn = ratings_df[p[1]].isbn
        /\ books_df[p[2]][col] = key }
RatedCount(col, key) ==
    SumOver([ p \in Rows(ratings_df) \X Rows(books_df) |-> ratings_df[p[1]].n ],
            RatedPairs(col, key))
RatedSum(col, key) ==
    SumOver([ p \in Rows(ratings_df) \X Rows(books_df) |->
                ratings_df[p[1]].n * ratings_df[p[1]].rating.v ],
            RatedPairs(col, key))

\* table t, keyed by column col of the books, is built from the ratings above 0 only
FromRatedOnly(t, col) ==
    \A j \in Rows(t) :
        /\ t[j].Total_Ratings = RatedCount(col, t[j].key)
        /\ t[j].Avg_Rating \in
            { round2(RatedSum(col, t[j].key), RatedCount(col, t[j].key), up) :
                up \in BOOLEAN }

\* what C12 says of the counts but for the implicit one, and of the tables
C12_Rest ==
    /\ merged.total = CombinationsOf(Rows(ratings_df))
    /\ merged.actual = CombinationsOf(Rated)
    /\ merged.actual + merged.implicit = merged.total
    /\ \A i \in Rows(rated_books) : rated_books[i].rating.v > 0
    /\ FromRatedOnly(author_performance, "author")
    /\ FromRatedOnly(publisher_stats, "publisher")

Tiered == index(tier1) \cup index(tier2) \cup index(tier3)

\* C13: the three tiers together are the authors of author_performance with
\* 100+ ratings and a 6.5+ average; every author of the long tail has fewer
\* than 100 ratings or an average below 6.5; and an author who meets the
\* thresholds of a tier is in that tier or in a higher one.
C13_TiersCover ==
    Called("tenant_recommendations") =>
        /\ Tiered = { author_performance[i].key : i \in
                        { j \in Rows(author_performance) :
                            /\ author_performance[j].Total_Ratings >= 100
                            /\ author_performance[j].Avg_Rating >= 650 } }
        /\ \A i \in Rows(author_performance) :
            LET r == author_performance[i]
            IN /\ r.key \notin Tiered => (r.Total_Ratings < 100 \/ r.Avg_Rating < 650)
               /\ (r.Total_Ratings >= 1000 /\ r.Avg_Rating >= 750) => r.key \in index(tier1)
               /\ (r.Total_Ratings >= 500 /\ r.Avg_Rating >= 700) =>
                        r.key \in index(tier1) \cup index(tier2)
        /\ insights.long_tail = Cardinality(index(author_performance) \ Tiered)

\* an author short of tier 2 is in tier 3 and another, with 100 ratings or
\* more and an average below 6.5, in the long tail
C13_Witness ==
    /\ Called("tenant_recommendations")
    /\ \E i \in Rows(tier3) : tier3[i].Total_Ratings = 499
    /\ \E i \in Rows(author_performance) :
            /\ author_performance[i].key \notin Tiered
            /\ author_performance[i].Total_Ratings >= 100

\* C14: every age that passes the validity filter falls in exactly one of the
\* seven age groups, so the age-group counts add up to the number of users
\* with valid age data.
C14_AgeGroupsCover ==
    Called("analyze_users") =>
        /\ DOMAIN age_groups = { AgeLabels[k] : k \in DOMAIN AgeLabels }
        /\ \A i \in DOMAIN valid_ages :
            Cardinality({ k \in DOMAIN AgeLabels :
                            valid_ages[i] > AgeBins[k] /\ valid_ages[i] <= AgeBins[k + 1] }) = 1
        /\ SumOver(age_groups, DOMAIN age_groups) = Cardinality(DOMAIN valid_ages)

\* the authors of Books.csv, a missing author standing as "Unknown Author"
NamedAuthors ==
    { IF books_csv[i].author = NaN THEN "Unknown Author" ELSE books_csv[i].author :
        i \in Rows(books_csv) }

\* the books of author a in Books.csv
BooksBy(a) ==
    SumOver([ i \in Rows(books_csv) |-> books_csv[i].n ],
            { i \in Rows(books_csv) :
                (IF books_csv[i].author = NaN THEN "Unknown Author"
                 ELSE books_csv[i].author) = a })

\* C15: the four values of the pie chart are the numbers of authors with 1
\* book, 2-9 books, 10-49 books and 50+ books; none is negative and they add
\* up to the number of authors, the missing authors counting as one.
C15_AuthorCategories ==
    Called("analyze_books_for_tenancy") =>
        /\ Len(categories) = 4
        /\ \A k \in 1..4 : categories[k] >= 0
        /\ categories[1] + categories[2] + categories[3] + categories[4]
                = Cardinality(NamedAuthors)
        /\ categories[1] = Cardinality({ a \in NamedAuthors : BooksBy(a) = 1 })
        /\ categories[2] = Cardinality({ a \in NamedAuthors : BooksBy(a) >= 2 /\ BooksBy(a) <= 9 })
        /\ categories[3] = Cardinality({ a \in NamedAuthors : BooksBy(a) >= 10 /\ BooksBy(a) <= 49 })
        /\ categories[4] = Cardinality({ a \in NamedAuthors : BooksBy(a) >= 50 })
        /\ DOMAIN author_stats = NamedAuthors

\* the books without an author make one author of 49 books, next to an
\* author of a single book
C15_Witness ==
    /\ Called("analyze_books_for_tenancy")
    /\ "Unknown Author" \in DOMAIN author_stats
    /\ author_stats["Unknown Author"] = 49
    /\ categories = << 1, 0, 1, 0 >>

====
